---------------------------- MODULE Spec2Model ----------------------------
(***************************************************************************)
(* Model of the financial-data reconciliation and ratio-derivation         *)
(* pipeline of LIF_fin_service:                                            *)
(*   FinService.fetch_and_save_financial_data        (fin_service.py)      *)
(*   FinancialStatementService.fetch_and_save_...    (financial_statement_ *)
(*                                                    service.py)          *)
(*   RatioService.calculate_and_save_ratios / _calculate_ratios /          *)
(*   _save_ratios                                    (ratio_service.py)    *)
(*   FinController.get_financial                     (fin_controller.py)   *)
(*                                                                         *)
(* Strings of the source that are parsed (amounts, display order, business *)
(* year) are tuples of one-character strings, so that parsing is modelled  *)
(* by what it does.  Account names are written in English:                 *)
(*   total_assets = 자산총계        total_liabilities = 부채총계           *)
(*   total_equity = 자본총계        current_assets = 유동자산              *)
(*   current_liabilities = 유동부채 revenue = 매출액                       *)
(*   operating_profit = 영업이익    net_income = 당기순이익                *)
(*   interest_expense = 이자비용    borrowings = 차입금                    *)
(*   operating_cash_flow = 영업활동현금흐름                                *)
(*   sj_nm: balance_sheet = 재무상태표, income_statement = 손익계산서,     *)
(*          cash_flow_statement = 현금흐름표, financial_ratio = 재무비율   *)
(***************************************************************************)
EXTENDS Integers, Sequences, FiniteSets, Bags, TLC

(***************************************************************************)
(* Bounds of the model.                                                    *)
(***************************************************************************)
\* how many invocations of fetch_and_save_financial_data are started in a run
MaxCalls == 3
\* how many invocations are started in a run in which requests may overlap
RaceCalls == 2

(***************************************************************************)
(* Text and numbers.                                                       *)
(***************************************************************************)
Digits == {"0", "1", "2", "3", "4", "5", "6", "7", "8", "9"}

DigitVal ==
    ("0" :> 0) @@ ("1" :> 1) @@ ("2" :> 2) @@ ("3" :> 3) @@ ("4" :> 4) @@
    ("5" :> 5) @@ ("6" :> 6) @@ ("7" :> 7) @@ ("8" :> 8) @@ ("9" :> 9)

\* Python's None for an Optional[str] field
None == <<"None">>

\* str.replace(",", "")
RECURSIVE StripCommas(_)
StripCommas(s) ==
    IF s = <<>> THEN <<>>
    ELSE IF Head(s) = "," THEN StripCommas(Tail(s))
         ELSE <<Head(s)>> \o StripCommas(Tail(s))

RECURSIVE DigitsValue(_, _)
DigitsValue(s, acc) ==
    IF s = <<>> THEN acc
    ELSE DigitsValue(Tail(s), acc * 10 + DigitVal[Head(s)])

\* does float()/int() accept the text: an optional sign, then digits only
\* (the modelled alphabet has no blank, point or exponent)
IsNumeral(s) ==
    LET body == IF s # <<>> /\ Head(s) \in {"-", "+"} THEN Tail(s) ELSE s
    IN  /\ body # <<>>
        /\ \A i \in 1..Len(body) : body[i] \in Digits

NumeralValue(s) ==
    IF Head(s) = "-" THEN 0 - DigitsValue(Tail(s), 0)
    ELSE IF Head(s) = "+" THEN DigitsValue(Tail(s), 0)
    ELSE DigitsValue(s, 0)

\* int(text): [ok |-> FALSE] stands for the ValueError
ParseInt(s) ==
    IF IsNumeral(s) THEN [ok |-> TRUE, val |-> NumeralValue(s)]
    ELSE [ok |-> FALSE, val |-> 0]

\* the conversion without replace(",", ""): a grouped amount is not a number
ConvertAmountNoStrip(amount_str) ==
    IF amount_str = None \/ amount_str = <<>> THEN 0
    ELSE IF IsNumeral(amount_str) THEN NumeralValue(amount_str) ELSE 0

\* the conversion that reads the digits of any text
ConvertAmountLenient(amount_str) ==
    IF amount_str = None \/ amount_str = <<>> THEN 0
    ELSE DigitsValue(SelectSeq(amount_str, LAMBDA ch : ch \in Digits), 0)

\* FinService._convert_amount
ConvertAmount(amount_str) ==
    IF amount_str = None \/ amount_str = <<>> THEN 0
    ELSE LET t == StripCommas(amount_str)
         IN  IF IsNumeral(t) THEN NumeralValue(t) ELSE 0

Abs(x) == IF x < 0 THEN 0 - x ELSE x

RECURSIVE GCD(_, _)
GCD(a, b) == IF b = 0 THEN a ELSE GCD(b, a % b)

\* the quotient n / d (d # 0) of two amounts, kept exact as a reduced fraction
Rat(n, d) ==
    LET g == GCD(Abs(n), Abs(d))
        sgn == IF d < 0 THEN 0 - 1 ELSE 1
    IN  <<(sgn * n) \div g, (sgn * d) \div g>>

Zero == <<0, 1>>

\* ROUND(x, 2) of the ratio query of FinController.get_financial_ratios, in
\* hundredths: half away from zero
Round2(q) ==
    LET n == Abs(q[1])
        h == (2 * n * 100 + q[2]) \div (2 * q[2])
    IN  IF q[1] < 0 THEN 0 - h ELSE h


(***************************************************************************)
(* The upstream disclosure API (a black-box data source): the company      *)
(* registry CORPCODE.xml and the line items it can answer with.            *)
(***************************************************************************)
Y2022 == <<"2", "0", "2", "2">>
Y2023 == <<"2", "0", "2", "3">>

\* business years the upstream source has filings for
Years == {Y2022, Y2023}

\* company names a caller asks for; only "A" is in the upstream registry
CompanyNames == {"A", "Z"}

Registry == {[corp_name |-> "A", corp_code |-> "c1", stock_code |-> "s1"]}

\* one disclosed account entry of the BS/IS endpoint
RawItem(year, div, nm, acct, th, fr, bf, o) ==
    [bsns_year |-> year, rcept_no |-> <<"r">> \o year, sj_div |-> div, sj_nm |-> nm,
     account_nm |-> acct, thstrm_amount |-> th, frmtrm_amount |-> fr,
     bfefrmtrm_amount |-> bf, ord |-> o]

\* one entry of the cash-flow endpoint: it carries no statement division
RawCfItem(year, acct, th, fr, bf, o) ==
    [bsns_year |-> year, rcept_no |-> <<"r">> \o year,
     account_nm |-> acct, thstrm_amount |-> th, frmtrm_amount |-> fr,
     bfefrmtrm_amount |-> bf, ord |-> o]

\* filing "v1": the accounts of the end-to-end scenario, plus an entry of a
\* division the pipeline does not keep
FilingV1(year) ==
    << RawItem(year, "BS", "balance_sheet", "total_assets",
               <<"1", ",", "0", "0", "0">>, <<"9", "0", "0">>, None, <<"1">>),
       RawItem(year, "BS", "balance_sheet", "total_liabilities",
               <<"4", "0", "0">>, <<"3", "0", "0">>, None, <<"2">>),
       RawItem(year, "BS", "balance_sheet", "total_equity",
               <<"6", "0", "0">>, <<"6", "0", "0">>, None, <<"3">>),
       RawItem(year, "SCE", "equity_changes", "total_equity",
               <<"6", "0", "0">>, <<>>, None, <<"4">>),
       RawItem(year, "IS", "income_statement", "revenue",
               <<"2", ",", "0", "0", "0">>, <<"1", ",", "0", "0", "0">>, <<"-">>, <<"5">>),
       RawItem(year, "IS", "income_statement", "operating_profit",
               <<"3", "0", "0">>, <<"-", "1", "0", "0">>, <<>>, <<"6">>),
       RawItem(year, "IS", "income_statement", "net_income",
               <<"2", "0", "0">>, <<>>, <<>>, <<"7">>) >>

\* filing "v2": a restated filing of the same year, with a repeated account
FilingV2(year) ==
    << RawItem(year, "BS", "balance_sheet", "total_liabilities",
               <<"3", "0", "0">>, <<"3", "0", "0">>, None, <<"2">>),
       RawItem(year, "BS", "balance_sheet", "total_equity",
               <<"5", "0", "0">>, <<"x">>, None, <<"9">>),
       RawItem(year, "BS", "balance_sheet", "total_equity",
               <<"6", "0", "0">>, <<"6", "0", "0">>, None, <<"3">>),
       RawItem(year, "IS", "income_statement", "net_income",
               <<"1", "5", "0">>, <<"1", "0", "0">>, <<>>, <<"7">>) >>

CashFlowFiling(year) ==
    << RawCfItem(year, "operating_cash_flow", <<"1", "2", "0">>, <<>>, <<>>, <<"1">>) >>

\* a business-year text int() does not accept
MalformedYear == <<"2", "0", "2", "3", "A">>

\* a filing whose second BS/IS entry carries a malformed business year
MalformedFiling(year) ==
    << RawItem(year, "BS", "balance_sheet", "total_assets",
               <<"1", ",", "0", "0", "0">>, <<"9", "0", "0">>, None, <<"1">>),
       RawItem(MalformedYear, "IS", "income_statement", "revenue",
               <<"2", ",", "0", "0", "0">>, <<>>, <<>>, <<"5">>) >>

\* a cash-flow answer whose entry carries a malformed business year
MalformedCashFlowFiling(year) ==
    << RawCfItem(MalformedYear, "operating_cash_flow", <<"1", "2", "0">>, <<>>, <<>>, <<"1">>) >>

\* what an upstream endpoint can answer: HTTP status, API status, the list
Response(http, status, list) == [http |-> http, status |-> status, list |-> list]

BsIsResponses(year) ==
    { Response(200, "000", FilingV1(year)),
      Response(200, "000", FilingV2(year)),
      Response(200, "000", MalformedFiling(year)),
      Response(200, "013", <<>>),
      Response(500, "", <<>>) }

CfResponses(year) ==
    { Response(200, "000", CashFlowFiling(year)),
      Response(200, "000", MalformedCashFlowFiling(year)),
      Response(200, "013", <<>>),
      Response(500, "", <<>>) }

\* the registry download: HTTP status and the list of companies
RegistryResponses == { [http |-> 200, list |-> Registry], [http |-> 500, list |-> {}] }


(***************************************************************************)
(* Line-item normalizer and deduplicator (pure functions).                 *)
(***************************************************************************)
\* comparative-period labels: f"{int(item['bsns_year'])}년", -1, -2
WithLabels(item) ==
    LET y == ParseInt(item.bsns_year).val
    IN  item @@ [thstrm_nm |-> <<y, "Y">>, frmtrm_nm |-> <<y - 1, "Y">>,
                 bfefrmtrm_nm |-> <<y - 2, "Y">>]

\* the loop that passes over an entry whose business year is not a number
NormalizeBsIsSkipsMalformed(resp) ==
    IF resp.http = 200 /\ resp.status = "000"
    THEN LET kept == SelectSeq(resp.list, LAMBDA it : /\ it.sj_div \in {"BS", "IS"}
                                                      /\ ParseInt(it.bsns_year).ok)
         IN  [raised |-> FALSE,
              statements |-> [i \in 1..Len(kept) |-> WithLabels(kept[i])]]
    ELSE [raised |-> FALSE, statements |-> <<>>]

\* the loop over the BS/IS answer: [raised |-> TRUE] is the ValueError of
\* int(item['bsns_year']); a non-200 or non-"000" answer adds nothing
NormalizeBsIs(resp) ==
    IF resp.http = 200 /\ resp.status = "000"
    THEN LET kept == SelectSeq(resp.list, LAMBDA it : it.sj_div \in {"BS", "IS"})
         IN  IF \E i \in 1..Len(kept) : ~ParseInt(kept[i].bsns_year).ok
             THEN [raised |-> TRUE, statements |-> <<>>]
             ELSE [raised |-> FALSE,
                   statements |-> [i \in 1..Len(kept) |-> WithLabels(kept[i])]]
    ELSE [raised |-> FALSE, statements |-> <<>>]

\* the loop over the cash-flow answer: the division is injected
NormalizeCf(resp) ==
    IF resp.http = 200 /\ resp.status = "000"
    THEN IF \E i \in 1..Len(resp.list) : ~ParseInt(resp.list[i].bsns_year).ok
         THEN [raised |-> TRUE, statements |-> <<>>]
         ELSE [raised |-> FALSE,
               statements |-> [i \in 1..Len(resp.list) |->
                    WithLabels([sj_div |-> "CF", sj_nm |-> "cash_flow_statement"]
                               @@ resp.list[i])]]
    ELSE [raised |-> FALSE, statements |-> <<>>]

\* the key without the statement name
DedupKeyAccountOnly(stmt) == <<stmt.account_nm>>

\* the key of latest_statements
DedupKey(stmt) == <<stmt.account_nm, stmt.sj_nm>>

\* the loop body with "<=" for "<": of equal display orders the last one wins
DedupStepLastWins(acc, stmt) ==
    IF \E j \in 1..Len(acc) : DedupKey(acc[j]) = DedupKey(stmt)
    THEN LET j == CHOOSE k \in 1..Len(acc) : DedupKey(acc[k]) = DedupKey(stmt)
         IN  IF ParseInt(stmt.ord).val <= ParseInt(acc[j].ord).val
             THEN [acc EXCEPT ![j] = stmt]
             ELSE acc
    ELSE Append(acc, stmt)

\* one pass of the loop body of _deduplicate_statements over acc, the values
\* of latest_statements in insertion order
DedupStep(acc, stmt) ==
    IF \E j \in 1..Len(acc) : DedupKey(acc[j]) = DedupKey(stmt)
    THEN LET j == CHOOSE k \in 1..Len(acc) : DedupKey(acc[k]) = DedupKey(stmt)
         IN  IF ParseInt(stmt.ord).val < ParseInt(acc[j].ord).val
             THEN [acc EXCEPT ![j] = stmt]
             ELSE acc
    ELSE Append(acc, stmt)

RECURSIVE DedupFrom(_, _)
DedupFrom(acc, rest) ==
    IF rest = <<>> THEN acc
    ELSE DedupFrom(DedupStep(acc, Head(rest)), Tail(rest))

\* the loop started at the second row
DeduplicateSkipFirst(statements) ==
    IF statements = <<>> THEN <<>> ELSE DedupFrom(<<>>, Tail(statements))

\* FinService._deduplicate_statements
DeduplicateStatements(statements) == DedupFrom(<<>>, statements)

\* FinService._prepare_statement_data: the row written to fin_data
PrepareStatementData(statement, company_info) ==
    [corp_code |-> company_info.corp_code,
     corp_name |-> company_info.corp_name,
     stock_code |-> company_info.stock_code,
     rcept_no |-> statement.rcept_no,
     bsns_year |-> statement.bsns_year,
     sj_div |-> statement.sj_div,
     sj_nm |-> statement.sj_nm,
     account_nm |-> statement.account_nm,
     thstrm_nm |-> statement.thstrm_nm,
     thstrm_amount |-> ConvertAmount(statement.thstrm_amount),
     frmtrm_nm |-> statement.frmtrm_nm,
     frmtrm_amount |-> ConvertAmount(statement.frmtrm_amount),
     bfefrmtrm_nm |-> statement.bfefrmtrm_nm,
     bfefrmtrm_amount |-> ConvertAmount(statement.bfefrmtrm_amount),
     ord |-> statement.ord]

(***************************************************************************)
(* Ratio engine (pure functions).                                          *)
(***************************************************************************)
RatioNames ==
    {"debt_ratio", "current_ratio", "interest_coverage_ratio",
     "operating_profit_ratio", "net_profit_ratio", "roe", "roa",
     "debt_dependency", "cash_flow_debt_ratio",
     "sales_growth", "operating_profit_growth", "eps_growth"}

\* RatioService._calculate_growth_rate
CalculateGrowthRate(current, previous) ==
    IF previous = 0 THEN Zero
    ELSE Rat((current - previous) * 100, Abs(previous))

\* next((float(s[column]) for s in statements
\*       if s["sj_div"] == div and s["account_nm"] == account), 0)
\* (account names are unique within a division in the batches handed over)
FirstAmount(statements, div, account, column) ==
    LET mine == {r \in statements : r.sj_div = div /\ r.account_nm = account}
    IN  IF mine = {} THEN 0
        ELSE LET r == CHOOSE x \in mine : TRUE
             IN  CASE column = "thstrm_amount" -> r.thstrm_amount
                   [] column = "frmtrm_amount" -> r.frmtrm_amount
                   [] column = "bfefrmtrm_amount" -> r.bfefrmtrm_amount

\* RatioService.calculate_financial_ratios on the statements the repository
\* returned: all twelve names start at 0; noncurrent_liabilities = 비유동부채
CalculateFinancialRatios(corp_code, bsns_year, statements) ==
    IF statements = {} THEN <<>>
    ELSE
    LET bs(n) == FirstAmount(statements, "BS", n, "thstrm_amount")
        is(n) == FirstAmount(statements, "IS", n, "thstrm_amount")
        prev(n) == FirstAmount(statements, "IS", n, "frmtrm_amount")
        prev_prev(n) == FirstAmount(statements, "IS", n, "bfefrmtrm_amount")
        total_assets == bs("total_assets")
        total_liabilities == bs("total_liabilities")
        total_equity == bs("total_equity")
        current_assets == bs("current_assets")
        current_liabilities == bs("current_liabilities")
        revenue == is("revenue")
        operating_profit == is("operating_profit")
        net_income == is("net_income")
        short_term_debt == bs("current_liabilities")
        long_term_debt == bs("noncurrent_liabilities")
        growth(n) == IF prev(n) > 0 /\ prev_prev(n) > 0
                     THEN CalculateGrowthRate(is(n), prev(n)) ELSE Zero
        value(r) ==
            CASE r = "debt_ratio" ->
                   IF total_equity > 0 THEN Rat(total_liabilities * 100, total_equity)
                   ELSE Zero
              [] r = "current_ratio" ->
                   IF current_liabilities > 0
                   THEN Rat(current_assets * 100, current_liabilities) ELSE Zero
              [] r = "operating_profit_ratio" ->
                   IF revenue > 0 THEN Rat(operating_profit * 100, revenue) ELSE Zero
              [] r = "net_profit_ratio" ->
                   IF revenue > 0 THEN Rat(net_income * 100, revenue) ELSE Zero
              [] r = "roe" ->
                   IF total_equity > 0 THEN Rat(net_income * 100, total_equity) ELSE Zero
              [] r = "roa" ->
                   IF total_assets > 0 THEN Rat(net_income * 100, total_assets) ELSE Zero
              [] r = "debt_dependency" ->
                   IF total_liabilities > 0
                   THEN Rat((short_term_debt + long_term_debt) * 100, total_liabilities)
                   ELSE Zero
              [] r = "sales_growth" -> growth("revenue")
              [] r = "operating_profit_growth" -> growth("operating_profit")
              [] r = "eps_growth" -> growth("net_income")
              [] r \in {"interest_coverage_ratio", "cash_flow_debt_ratio"} -> Zero
    IN  [r \in RatioNames |-> value(r)]
        @@ [corp_code |-> corp_code, bsns_year |-> bsns_year]

\* RatioService._calculate_ratios, from bs_data and is_data (account name ->
\* row); the result is the dict ratios: only the computed names are in it
CalculateRatios(bs_data, is_data) ==
    LET inBs(n) == n \in DOMAIN bs_data
        inIs(n) == n \in DOMAIN is_data
        bs(n) == bs_data[n].thstrm_amount
        is(n) == is_data[n].thstrm_amount
        prev(n) == is_data[n].frmtrm_amount
        computed(r) ==
            CASE r = "current_ratio" ->
                   inBs("current_assets") /\ inBs("current_liabilities")
                   /\ bs("current_liabilities") # 0
              [] r = "debt_ratio" ->
                   inBs("total_liabilities") /\ inBs("total_equity")
                   /\ bs("total_equity") # 0
              [] r = "roe" ->
                   inIs("net_income") /\ inBs("total_equity") /\ bs("total_equity") # 0
              [] r = "roa" ->
                   inIs("net_income") /\ inBs("total_assets") /\ bs("total_assets") # 0
              [] r = "operating_profit_ratio" ->
                   inIs("operating_profit") /\ inIs("revenue") /\ is("revenue") # 0
              [] r = "net_profit_ratio" ->
                   inIs("net_income") /\ inIs("revenue") /\ is("revenue") # 0
              [] r = "interest_coverage_ratio" ->
                   inIs("operating_profit") /\ inIs("interest_expense")
                   /\ is("interest_expense") # 0
              [] r = "debt_dependency" ->
                   inBs("total_liabilities") /\ inBs("borrowings")
                   /\ bs("total_liabilities") # 0
              [] r = "sales_growth" -> inIs("revenue") /\ prev("revenue") # 0
              [] r = "operating_profit_growth" ->
                   inIs("operating_profit") /\ prev("operating_profit") # 0
              [] r = "eps_growth" -> inIs("net_income") /\ prev("net_income") # 0
              [] r = "cash_flow_debt_ratio" ->
                   inIs("operating_cash_flow") /\ inBs("total_liabilities")
                   /\ bs("total_liabilities") # 0
        value(r) ==
            CASE r = "current_ratio" ->
                   Rat(bs("current_assets") * 100, bs("current_liabilities"))
              [] r = "debt_ratio" ->
                   Rat(bs("total_liabilities") * 100, bs("total_equity"))
              [] r = "roe" -> Rat(is("net_income") * 100, bs("total_equity"))
              [] r = "roa" -> Rat(is("net_income") * 100, bs("total_assets"))
              [] r = "operating_profit_ratio" ->
                   Rat(is("operating_profit") * 100, is("revenue"))
              [] r = "net_profit_ratio" -> Rat(is("net_income") * 100, is("revenue"))
              [] r = "interest_coverage_ratio" ->
                   Rat(is("operating_profit"), is("interest_expense"))
              [] r = "debt_dependency" ->
                   Rat(bs("borrowings") * 100, bs("total_liabilities"))
              [] r = "sales_growth" ->
                   CalculateGrowthRate(is("revenue"), prev("revenue"))
              [] r = "operating_profit_growth" ->
                   CalculateGrowthRate(is("operating_profit"), prev("operating_profit"))
              [] r = "eps_growth" ->
                   CalculateGrowthRate(is("net_income"), prev("net_income"))
              [] r = "cash_flow_debt_ratio" ->
                   Rat(is("operating_cash_flow") * 100, bs("total_liabilities"))
    IN  [r \in {x \in RatioNames : computed(x)} |-> value(r)]

\* ratio_data with ratios.get(name) for ratios.get(name, 0): a ratio that was
\* not computed is written as NULL
RatioDataNoDefault(corp_code, corp_name, bsns_year, ratios) ==
    [corp_code |-> corp_code, corp_name |-> corp_name, bsns_year |-> bsns_year,
     sj_div |-> "RATIO", sj_nm |-> "financial_ratio",
     ratios |-> [r \in RatioNames |-> IF r \in DOMAIN ratios THEN ratios[r] ELSE None]]

\* ratio_data of _save_ratios: ratios.get(name, 0) for each of the 12 names
RatioData(corp_code, corp_name, bsns_year, ratios) ==
    [corp_code |-> corp_code, corp_name |-> corp_name, bsns_year |-> bsns_year,
     sj_div |-> "RATIO", sj_nm |-> "financial_ratio",
     ratios |-> [r \in RatioNames |-> IF r \in DOMAIN ratios THEN ratios[r] ELSE Zero]]


(***************************************************************************)
(* State.                                                                  *)
(*   fin_data  the committed rows of table fin_data (a bag: the INSERTs    *)
(*             of the source name no key and no ON CONFLICT clause)        *)
(*   tx        per session, the uncommitted work of its transaction: the   *)
(*             committed rows it deleted and the rows it inserted          *)
(*   call      per session, the invocation of fetch_and_save_financial_    *)
(*             data running on it: its position and its local variables,   *)
(*             and the upstream answers it has received                    *)
(*   ncalls    how many invocations have been started                      *)
(***************************************************************************)
VARIABLES fin_data, tx, call, ncalls

vars == <<fin_data, tx, call, ncalls>>

\* one persistence session per request; at most two requests are open at once
Sessions == {"s1", "s2"}

NoTx == [del |-> EmptyBag, ins |-> EmptyBag]

Idle ==
    [pc |-> "idle", svc |-> "", company_name |-> "", year |-> <<>>,
     company_info |-> <<>>, latest_year |-> None, req_year |-> None,
     fetched |-> <<>>, statements |-> <<>>, bsns_year |-> None, ratios |-> <<>>,
     log |-> <<>>, raised |-> <<>>, upstream_failed |-> FALSE,
     write_failed |-> FALSE, propagated |-> <<>>, result |-> <<>>,
     response |-> <<>>, store0 |-> EmptyBag, answers |-> <<>>]

Init ==
    /\ fin_data = EmptyBag
    /\ tx = [s \in Sessions |-> NoTx]
    /\ call = [s \in Sessions |-> Idle]
    /\ ncalls = 0

(***************************************************************************)
(* Persistence surface: what a session sees and what its statements do.    *)
(***************************************************************************)
BagSelect(B, Test(_)) == [e \in {x \in BagToSet(B) : Test(x)} |-> B[e]]

RECURSIVE SumOf(_, _)
SumOf(B, S) ==
    IF S = {} THEN 0
    ELSE LET e == CHOOSE x \in S : TRUE IN B[e] + SumOf(B, S \ {e})

\* the rows a statement of session s reads: the committed rows and its own
\* uncommitted work
View(s) == (fin_data (-) tx[s].del) (+) tx[s].ins

\* DELETE FROM fin_data WHERE Test, run in the transaction t
TxDelete(t, Test(_)) ==
    [del |-> t.del (+) BagSelect(fin_data (-) t.del, Test),
     ins |-> BagSelect(t.ins, LAMBDA r : ~Test(r))]

\* INSERT of the rows of the bag B, run in the transaction t
TxInsert(t, B) == [t EXCEPT !.ins = @ (+) B]

\* db_session.commit()
Committed(t) == (fin_data (-) t.del) (+) t.ins

RECURSIVE SeqToBag(_)
SeqToBag(q) == IF q = <<>> THEN EmptyBag ELSE SetToBag({Head(q)}) (+) SeqToBag(Tail(q))

\* SELECT COUNT(*) FROM fin_data WHERE corp_name = :company_name
CountByName(view, company_name) ==
    BagCardinality(BagSelect(view, LAMBDA r : r.corp_name = company_name))

\* SELECT MAX(bsns_year) FROM fin_data WHERE corp_name = :company_name
\* (four-digit years: the text order is the numeric order)
MaxYear(view, company_name) ==
    LET ys == {r.bsns_year : r \in {x \in BagToSet(view) : x.corp_name = company_name}}
    IN  IF ys = {} THEN None
        ELSE CHOOSE y \in ys : \A z \in ys : ParseInt(z).val <= ParseInt(y).val

\* the seven columns of the data query
DataColumns(r) ==
    [bsns_year |-> r.bsns_year, sj_div |-> r.sj_div, sj_nm |-> r.sj_nm,
     account_nm |-> r.account_nm, thstrm_amount |-> r.thstrm_amount,
     frmtrm_amount |-> r.frmtrm_amount, bfefrmtrm_amount |-> r.bfefrmtrm_amount]

\* SELECT ... FROM fin_data WHERE corp_name = :company_name AND sj_div != 'RATIO'
\* the rows returned, as a bag (the ORDER BY only arranges them)
SelectData(view, company_name) ==
    LET rows == BagSelect(view, LAMBDA r : r.corp_name = company_name /\ r.sj_div # "RATIO")
    IN  [p \in {DataColumns(r) : r \in DOMAIN rows} |->
            SumOf(rows, {r \in DOMAIN rows : DataColumns(r) = p})]

\* the ratio query without its bsns_year condition
SelectBsIsAnyYear(view, corp_code, bsns_year) ==
    {r \in BagToSet(view) : /\ r.corp_code = corp_code
                            /\ r.sj_div \in {"BS", "IS"}}

\* SELECT * FROM fin_data WHERE corp_code, bsns_year, sj_div IN ('BS', 'IS')
SelectBsIs(view, corp_code, bsns_year) ==
    {r \in BagToSet(view) : /\ r.corp_code = corp_code
                            /\ r.bsns_year = bsns_year
                            /\ r.sj_div \in {"BS", "IS"}}

\* the RATIO rows of a (company code, business year) key
RatioRows(B, corp_code, bsns_year) ==
    BagSelect(B, LAMBDA r : /\ r.corp_code = corp_code /\ r.bsns_year = bsns_year
                            /\ r.sj_div = "RATIO")

\* {item["account_nm"]: item for item in statements if item["sj_div"] == div}:
\* a repeated account name keeps the row that comes last in ORDER BY sj_div,
\* ord; rows of equal ord come in an order the engine chooses
RECURSIVE DictsOver(_, _)
DictsOver(names, rows) ==
    IF names = {} THEN {<<>>}
    ELSE LET n == CHOOSE x \in names : TRUE
             mine == {r \in rows : r.account_nm = n}
             last == {r \in mine : \A q \in mine : ParseInt(q.ord).val <= ParseInt(r.ord).val}
         IN  {(n :> r) @@ d : r \in last, d \in DictsOver(names \ {n}, rows)}

NameIndexed(rows, div) ==
    LET mine == {r \in rows : r.sj_div = div}
    IN  DictsOver({r.account_nm : r \in mine}, mine)


(***************************************************************************)
(* The boundary of fetch_and_save_financial_data and its caller.           *)
(***************************************************************************)
Truthy(text) == text # None /\ text # <<>>

Error(type, msg) == [type |-> type, msg |-> msg]

\* the handler as "except ValueError": any other exception escapes
ExceptHandlerValueErrorOnly(e) ==
    IF e.type = "ValueError"
    THEN [result |-> [status |-> "error", message |-> e.msg], propagated |-> <<>>]
    ELSE [result |-> <<>>, propagated |-> e]

\* except Exception as e: return {"status": "error", "message": str(e)}
ExceptHandler(e) ==
    [result |-> [status |-> "error", message |-> e.msg], propagated |-> <<>>]

\* FinController.get_financial around the service call: the service's return
\* value is wrapped; a ValueError that reaches it is answered 400, any other
\* exception 500
GetFinancial(result, propagated) ==
    IF propagated = <<>>
    THEN [http |-> 200, status |-> "success", message |-> "retrieved", data |-> result]
    ELSE IF propagated.type = "ValueError"
         THEN [http |-> 400, detail |-> propagated.msg]
         ELSE [http |-> 500, detail |-> propagated.msg]

\* the invocation c ends with the given return value or escaping exception;
\* FinService is the service FinController calls
Ended(c, result, propagated) ==
    [c EXCEPT !.pc = "done", !.result = result, !.propagated = propagated,
              !.response = IF c.svc = "FinService"
                           THEN GetFinancial(result, propagated) ELSE <<>>]

\* the invocation c raises e inside the try block
Raise(c, e) ==
    LET h == ExceptHandler(e)
    IN  Ended([c EXCEPT !.raised = e], h.result, h.propagated)

Success(message, data) == [status |-> "success", message |-> message, data |-> data]

Logged(c, events) == [c EXCEPT !.log = @ \o events]

\* the gate with "<" for "<=": an equal year is taken for new data
FreshnessGateStrict(year, latest_year, statements) ==
    IF year = <<>>
    THEN LET current_year == ParseInt(statements[1].bsns_year).val
         IN  IF Truthy(latest_year) /\ current_year < ParseInt(latest_year).val
             THEN "cached" ELSE "fetch"
    ELSE "fetch"

\* the gate without the year comparison: any persisted row serves the cache
FreshnessGateAnyRows(year, latest_year, statements) ==
    IF year = <<>>
    THEN IF Truthy(latest_year) THEN "cached" ELSE "fetch"
    ELSE "fetch"

\* the gate without the test of the pinned year
FreshnessGateIgnoresPin(year, latest_year, statements) ==
    LET current_year == ParseInt(statements[1].bsns_year).val
    IN  IF Truthy(latest_year) /\ current_year <= ParseInt(latest_year).val
        THEN "cached" ELSE "fetch"

(***************************************************************************)
(* The freshness gate of FinancialStatementService (step 4).               *)
(***************************************************************************)
FreshnessGate(year, latest_year, statements) ==
    IF year = <<>>
    THEN LET current_year == ParseInt(statements[1].bsns_year).val
         IN  IF Truthy(latest_year) /\ current_year <= ParseInt(latest_year).val
             THEN "cached" ELSE "fetch"
    ELSE "fetch"

\* the write path without the delete of the existing statement rows
ToWritePathWithoutDelete(c) ==
    Logged([c EXCEPT !.statements = DeduplicateStatements(c.statements),
                     !.pc = "stmt_insert"],
           <<"dedup">>)

\* steps 3..5 of FinService after the fetch: dedup, then delete only for a
\* non-empty batch
ToWritePath(c) ==
    LET d == DeduplicateStatements(c.statements)
    IN  Logged([c EXCEPT !.statements = d,
                         !.pc = IF d # <<>> THEN "stmt_delete" ELSE "stmt_insert"],
               <<"dedup">>)

\* what follows get_financial_statements up to the next database call
AfterFetch(c) ==
    IF c.svc = "FinService" THEN ToWritePath(c)
    ELSE IF c.statements = <<>>
         THEN Ended(c, [status |-> "error", message |-> "statements_not_found"], <<>>)
         ELSE IF FreshnessGate(c.year, c.latest_year, c.statements) = "cached"
              THEN [c EXCEPT !.pc = "cached"]
              ELSE ToWritePath(c)

(***************************************************************************)
(* Scopes of the replace-semantics writes.                                 *)
(***************************************************************************)
\* repository.delete_financial_statements(corp_code, rcept_no, year): the
\* statement rows of the filing, of the pinned year only when one is given
StatementScope(r, corp_code, rcept_no, year) ==
    /\ r.sj_div # "RATIO"
    /\ r.corp_code = corp_code
    /\ r.rcept_no = rcept_no
    /\ (year # <<>> => ParseInt(r.bsns_year).val = year[1])

\* the ratio DELETE without its bsns_year condition
RatioScopeNoYear(r, corp_code, bsns_year) ==
    /\ r.corp_code = corp_code
    /\ r.sj_div = "RATIO"

\* DELETE ... WHERE corp_code = :corp_code AND bsns_year = :bsns_year
\*              AND sj_div = 'RATIO'
RatioScope(r, corp_code, bsns_year) ==
    /\ r.corp_code = corp_code
    /\ r.bsns_year = bsns_year
    /\ r.sj_div = "RATIO"

\* _save_ratios' except branch: db_session.rollback()
SaveRatiosOnError(t) == NoTx


(***************************************************************************)
(* Actions: one per awaited call of fetch_and_save_financial_data.         *)
(***************************************************************************)
\* a year a caller of FinancialStatementService can pin
PinnedYears == {<<ParseInt(y).val>> : y \in Years}

\* a request arrives: FinService takes a company name only,
\* FinancialStatementService a company name and an optional year
Start(s, svc, company_name, year) ==
    /\ call' = [call EXCEPT ![s] =
                   [Idle EXCEPT !.pc = IF svc = "FinService" THEN "check" ELSE "company",
                                !.svc = svc, !.company_name = company_name,
                                !.year = year, !.store0 = fin_data]]
    /\ ncalls' = ncalls + 1
    /\ UNCHANGED <<fin_data, tx>>

Inputs(s) ==
    \E company_name \in CompanyNames :
        \/ Start(s, "FinService", company_name, <<>>)
        \/ \E year \in {<<>>} \cup PinnedYears :
              Start(s, "FinancialStatementService", company_name, year)

\* one request at a time
Begin(s) ==
    /\ s = "s1"
    /\ \A t \in Sessions : call[t].pc = "idle"
    /\ ncalls < MaxCalls
    /\ Inputs(s)

\* FinService: SELECT COUNT(*) ... WHERE corp_name = :company_name
CheckExisting(s) ==
    /\ call[s].pc = "check"
    /\ LET c == Logged(call[s], <<"count">>)
       IN  call' = [call EXCEPT ![s] =
                [c EXCEPT !.pc = IF CountByName(View(s), c.company_name) > 0
                                 THEN "cached" ELSE "company"]]
    /\ UNCHANGED <<fin_data, tx, ncalls>>

\* the data query of the short-circuit, and the return of the cached rows
ReadCached(s) ==
    /\ call[s].pc = "cached"
    /\ LET c == Logged(call[s], <<"read">>)
       IN  call' = [call EXCEPT ![s] =
                Ended(c, Success("already_exists", SelectData(View(s), c.company_name)), <<>>)]
    /\ UNCHANGED <<fin_data, tx, ncalls>>

\* repository.get_company_by_name: the company of a persisted row of that name
CompanyByName(view, company_name) ==
    LET rows == {r \in BagToSet(view) : r.corp_name = company_name}
    IN  IF rows = {} THEN <<>>
        ELSE LET r == CHOOSE x \in rows : TRUE
             IN  [corp_code |-> r.corp_code, corp_name |-> r.corp_name,
                  stock_code |-> IF "stock_code" \in DOMAIN r THEN r.stock_code ELSE ""]

\* FinService._fetch_company_info_from_api on the answer resp
CompanyFromApi(resp, company_name) ==
    IF resp.http # 200 THEN [raised |-> Error("Exception", "api_request_failed")]
    ELSE IF \E e \in resp.list : e.corp_name = company_name
         THEN [raised |-> <<>>,
               info |-> CHOOSE e \in resp.list : e.corp_name = company_name]
         ELSE [raised |-> Error("ValueError", "company_not_found")]

\* get_company_info: the persisted rows first, then the upstream registry
ResolveCompany(s) ==
    /\ call[s].pc = "company"
    /\ LET c == call[s]
           next == IF c.svc = "FinService" THEN "fetch_bsis" ELSE "latest"
           db_company == CompanyByName(View(s), c.company_name)
       IN  IF db_company # <<>>
           THEN call' = [call EXCEPT ![s] =
                    Logged([c EXCEPT !.company_info = db_company, !.pc = next],
                           <<"company_db">>)]
           ELSE \E resp \in RegistryResponses :
                  LET got == CompanyFromApi(resp, c.company_name)
                      d == Logged([c EXCEPT !.upstream_failed = (resp.http # 200)],
                                  <<"company_db", "company_api">>)
                  IN  call' = [call EXCEPT ![s] =
                         IF got.raised # <<>> THEN Raise(d, got.raised)
                         ELSE [d EXCEPT !.company_info = got.info, !.pc = next]]
    /\ UNCHANGED <<fin_data, tx, ncalls>>

\* FinancialStatementService step 2: SELECT MAX(bsns_year)
QueryLatest(s) ==
    /\ call[s].pc = "latest"
    /\ call' = [call EXCEPT ![s] =
           Logged([call[s] EXCEPT !.latest_year = MaxYear(View(s), call[s].company_name),
                                  !.pc = "fetch_bsis"], <<"max_year">>)]
    /\ UNCHANGED <<fin_data, tx, ncalls>>

\* the business year the fetch asks the upstream source for: FinService asks
\* for "2023"; FinancialStatementService for the pinned year, or leaves the
\* choice of the latest filing to the upstream service
RequestYears(c) ==
    IF c.svc = "FinService" THEN {Y2023}
    ELSE IF c.year = <<>> THEN Years
         ELSE {y \in Years : ParseInt(y).val = c.year[1]}

\* the first upstream call of the fetch: balance sheet and income statement
FetchBsIs(s) ==
    /\ call[s].pc = "fetch_bsis"
    /\ \E req \in RequestYears(call[s]) : \E resp \in BsIsResponses(req) :
          LET n == NormalizeBsIs(resp)
              c == Logged([call[s] EXCEPT !.req_year = req,
                              !.upstream_failed = @ \/ resp.http # 200,
                              !.answers = Append(@, resp)],
                          <<"fetch_bsis">>)
          IN  call' = [call EXCEPT ![s] =
                 IF n.raised THEN Raise(c, Error("ValueError", "invalid_literal"))
                 ELSE [c EXCEPT !.statements = n.statements, !.pc = "fetch_cf"]]
    /\ UNCHANGED <<fin_data, tx, ncalls>>

\* the second upstream call of the fetch: cash flow; then the code up to the
\* next database call
FetchCf(s) ==
    /\ call[s].pc = "fetch_cf"
    /\ \E resp \in CfResponses(call[s].req_year) :
          LET n == NormalizeCf(resp)
              c == Logged([call[s] EXCEPT !.upstream_failed = @ \/ resp.http # 200,
                                          !.answers = Append(@, resp)],
                          <<"fetch_cf">>)
          IN  call' = [call EXCEPT ![s] =
                 IF n.raised THEN Raise(c, Error("ValueError", "invalid_literal"))
                 ELSE AfterFetch([c EXCEPT !.statements = @ \o n.statements,
                                           !.fetched = c.statements \o n.statements])]
    /\ UNCHANGED <<fin_data, tx, ncalls>>

\* repository.delete_financial_statements(corp_code, statements[0].rcept_no, year)
StmtDelete(s) ==
    /\ call[s].pc = "stmt_delete"
    /\ LET c == call[s]
       IN  \E ok \in BOOLEAN :
             IF ok
             THEN /\ tx' = [tx EXCEPT ![s] = TxDelete(@, LAMBDA r :
                              StatementScope(r, c.company_info.corp_code,
                                             c.statements[1].rcept_no, c.year))]
                  /\ call' = [call EXCEPT ![s] =
                         Logged([c EXCEPT !.pc = "stmt_insert"], <<"stmt_delete">>)]
             ELSE /\ tx' = tx
                  /\ call' = [call EXCEPT ![s] =
                         Raise([c EXCEPT !.write_failed = TRUE],
                               Error("Exception", "db_error"))]
    /\ UNCHANGED <<fin_data, ncalls>>

\* repository.save_financial_statements(statement_data); then bsns_year
StmtInsert(s) ==
    /\ call[s].pc = "stmt_insert"
    /\ LET c == call[s]
           statement_data == [i \in 1..Len(c.statements) |->
                                 PrepareStatementData(c.statements[i], c.company_info)]
           bsns_year == IF c.statements # <<>> THEN c.statements[1].bsns_year ELSE None
       IN  \E ok \in BOOLEAN :
             IF ok
             THEN /\ tx' = [tx EXCEPT ![s] = TxInsert(@, SeqToBag(statement_data))]
                  /\ call' = [call EXCEPT ![s] =
                         Logged([c EXCEPT !.bsns_year = bsns_year,
                                    !.pc = IF Truthy(bsns_year) THEN "ratio_query"
                                           ELSE "read_back"],
                                <<"stmt_insert">>)]
             ELSE /\ tx' = tx
                  /\ call' = [call EXCEPT ![s] =
                         Raise([c EXCEPT !.write_failed = TRUE],
                               Error("Exception", "db_error"))]
    /\ UNCHANGED <<fin_data, ncalls>>

\* calculate_and_save_ratios: the query of the BS/IS rows and _calculate_ratios
RatioQuery(s) ==
    /\ call[s].pc = "ratio_query"
    /\ LET c == call[s]
           rows == SelectBsIs(View(s), c.company_info.corp_code, c.bsns_year)
       IN  IF rows = {}
           THEN call' = [call EXCEPT ![s] =
                    Logged([c EXCEPT !.pc = "read_back"], <<"ratio_query">>)]
           ELSE \E bs_data \in NameIndexed(rows, "BS") :
                \E is_data \in NameIndexed(rows, "IS") :
                   call' = [call EXCEPT ![s] =
                      Logged([c EXCEPT !.ratios = CalculateRatios(bs_data, is_data),
                                       !.pc = "ratio_delete"],
                             <<"ratio_query", "ratio_calc">>)]
    /\ UNCHANGED <<fin_data, tx, ncalls>>

\* a statement of _save_ratios fails: rollback, and the error is raised again
SaveRatiosFails(s) ==
    /\ tx' = [tx EXCEPT ![s] = SaveRatiosOnError(@)]
    /\ call' = [call EXCEPT ![s] =
           Raise(Logged([call[s] EXCEPT !.write_failed = TRUE], <<"rollback">>),
                 Error("Exception", "db_error"))]
    /\ UNCHANGED <<fin_data, ncalls>>

\* _save_ratios: DELETE of the old ratio row
RatioDelete(s) ==
    /\ call[s].pc = "ratio_delete"
    /\ LET c == call[s]
       IN  \E ok \in BOOLEAN :
             IF ok
             THEN /\ tx' = [tx EXCEPT ![s] = TxDelete(@, LAMBDA r :
                              RatioScope(r, c.company_info.corp_code, c.bsns_year))]
                  /\ call' = [call EXCEPT ![s] =
                         Logged([c EXCEPT !.pc = "ratio_insert"], <<"ratio_delete">>)]
                  /\ UNCHANGED <<fin_data, ncalls>>
             ELSE SaveRatiosFails(s)

\* _save_ratios: INSERT of the new ratio row
RatioInsert(s) ==
    /\ call[s].pc = "ratio_insert"
    /\ LET c == call[s]
           ratio_data == RatioData(c.company_info.corp_code, c.company_info.corp_name,
                                   c.bsns_year, c.ratios)
       IN  \E ok \in BOOLEAN :
             IF ok
             THEN /\ tx' = [tx EXCEPT ![s] = TxInsert(@, SetToBag({ratio_data}))]
                  /\ call' = [call EXCEPT ![s] =
                         Logged([c EXCEPT !.pc = "commit"], <<"ratio_insert">>)]
                  /\ UNCHANGED <<fin_data, ncalls>>
             ELSE SaveRatiosFails(s)

\* _save_ratios: db_session.commit()
Commit(s) ==
    /\ call[s].pc = "commit"
    /\ \E ok \in BOOLEAN :
          IF ok
          THEN /\ fin_data' = Committed(tx[s])
               /\ tx' = [tx EXCEPT ![s] = NoTx]
               /\ call' = [call EXCEPT ![s] =
                      Logged([call[s] EXCEPT !.pc = "read_back"], <<"commit">>)]
               /\ UNCHANGED ncalls
          ELSE SaveRatiosFails(s)

\* the final data query, and the return of the rows
ReadBack(s) ==
    /\ call[s].pc = "read_back"
    /\ LET c == Logged(call[s], <<"read">>)
       IN  call' = [call EXCEPT ![s] =
                Ended(c, Success("saved", SelectData(View(s), c.company_name)), <<>>)]
    /\ UNCHANGED <<fin_data, tx, ncalls>>

\* the request is over: its session is closed, uncommitted work is discarded
Return(s) ==
    /\ call[s].pc = "done"
    /\ call' = [call EXCEPT ![s] = Idle]
    /\ tx' = [tx EXCEPT ![s] = NoTx]
    /\ UNCHANGED <<fin_data, ncalls>>

Step(s) ==
    \/ CheckExisting(s) \/ ReadCached(s) \/ ResolveCompany(s) \/ QueryLatest(s)
    \/ FetchBsIs(s) \/ FetchCf(s) \/ StmtDelete(s) \/ StmtInsert(s)
    \/ RatioQuery(s) \/ RatioDelete(s) \/ RatioInsert(s) \/ Commit(s)
    \/ ReadBack(s) \/ Return(s)

Next == \E s \in Sessions : Begin(s) \/ Step(s)

\* requests served one after the other
Spec == Init /\ [][Next]_vars


\* requests may overlap, each on its own session
BeginRace(s) ==
    /\ call[s].pc = "idle"
    /\ s = "s2" => call["s1"].pc # "idle"
    /\ ncalls < RaceCalls
    /\ Inputs(s)

NextRace == \E s \in Sessions : BeginRace(s) \/ Step(s)

SpecRace == Init /\ [][NextRace]_vars


(***************************************************************************)
(* Properties.                                                             *)
(***************************************************************************)
Has(log, event) == \E i \in 1..Len(log) : log[i] = event

\* event a occurs in the log, and event b after it
InOrder(log, a, b) == \E i, j \in 1..Len(log) : i < j /\ log[i] = a /\ log[j] = b

WriteEvents == {"stmt_delete", "stmt_insert", "ratio_delete", "ratio_insert", "commit"}

IssuedWrite(c) == \E i \in 1..Len(c.log) : c.log[i] \in WriteEvents

YearOf(text) == ParseInt(text).val

\* the invocation went down the fetch-and-recompute path for the fetched year
Recomputed(c) ==
    /\ c.pc # "cached"
    /\ Has(c.log, "dedup")
    /\ c.result # <<>> => c.result.message # "already_exists"
    /\ c.pc = "done" /\ c.raised = <<>> =>
          /\ c.result.status = "success" /\ c.result.message = "saved"
          /\ InOrder(c.log, "stmt_delete", "stmt_insert")
          /\ InOrder(c.log, "stmt_insert", "ratio_query")
          /\ c.bsns_year = c.fetched[1].bsns_year

\* the invocation served the rows persisted when it began, and wrote nothing
ServedCache(s) ==
    LET c == call[s]
    IN  /\ c.result.status = "success"
        /\ c.result.message = "already_exists"
        /\ c.result.data = SelectData(c.store0, c.company_name)
        /\ ~IssuedWrite(c)
        /\ tx[s] = NoTx
        /\ fin_data = c.store0

\* C1 (freshness short-circuit): an invocation without a pinned year, for a
\* company whose persisted maximum business year is Y, whose batch is of a
\* business year <= Y, returns success with the cached statement rows, issues
\* no delete and no insert, and leaves the persisted store as it was.
C1_FreshnessShortCircuit ==
    \A s \in Sessions :
        LET c == call[s]
            latest == MaxYear(c.store0, c.company_name)
        IN  c.pc = "done" /\ c.year = <<>> /\ Truthy(latest) =>
              /\ ( /\ c.svc = "FinancialStatementService"
                   /\ c.fetched # <<>>
                   /\ YearOf(c.fetched[1].bsns_year) <= YearOf(latest)
                   => ServedCache(s) )
              /\ ( /\ c.svc = "FinService"
                   /\ \A y \in RequestYears(c) : YearOf(y) <= YearOf(latest)
                   => ServedCache(s) )

C1_Witness ==
    \E s \in Sessions :
        LET c == call[s]
        IN  /\ c.pc = "done" /\ c.svc = "FinancialStatementService" /\ c.year = <<>>
            /\ c.latest_year = Y2023
            /\ c.fetched # <<>> /\ c.fetched[1].bsns_year = Y2023
            /\ c.result.message = "already_exists"
            /\ c.result.data # EmptyBag

\* C2 (the gate lets new data through): without a pinned year, when no row is
\* persisted for the company or the fetched batch's business year is greater
\* than the maximum persisted one, the invocation does not serve the cache
\* but deletes and inserts the statements and recomputes the ratios of the
\* fetched year.
C2_GateLetsNewDataThrough ==
    \A s \in Sessions :
        LET c == call[s]
            latest == MaxYear(c.store0, c.company_name)
        IN  c.year = <<>> /\ c.fetched # <<>> =>
              /\ ( /\ c.svc = "FinancialStatementService"
                   /\ \/ ~Truthy(latest)
                      \/ YearOf(c.fetched[1].bsns_year) > YearOf(latest)
                   => Recomputed(c) )
              /\ ( /\ c.svc = "FinService"
                   /\ CountByName(c.store0, c.company_name) = 0
                   => Recomputed(c) )

C2_Witness ==
    \E s \in Sessions :
        LET c == call[s]
        IN  /\ c.pc = "done" /\ c.svc = "FinancialStatementService" /\ c.year = <<>>
            /\ c.latest_year = Y2022
            /\ c.fetched # <<>> /\ c.fetched[1].bsns_year = Y2023
            /\ c.result.message = "saved"
            /\ RatioRows(fin_data, c.company_info.corp_code, Y2023) # EmptyBag

\* C3 (a pinned year overrides caching): with a pinned year and a non-empty
\* batch the invocation always runs the delete/insert and the ratio
\* recompute, whatever the maximum persisted business year is.
C3_PinnedYearOverridesCache ==
    \A s \in Sessions :
        LET c == call[s]
        IN  c.svc = "FinancialStatementService" /\ c.year # <<>> /\ c.fetched # <<>>
            => Recomputed(c)

C3_Witness ==
    \E s \in Sessions :
        LET c == call[s]
        IN  /\ c.pc = "done" /\ c.year = <<2022>>
            /\ c.latest_year = Y2023
            /\ c.fetched # <<>>
            /\ c.result.message = "saved"
            /\ Has(c.log, "commit")

\* C4 (the gate avoids upstream calls), as claimed: an invocation that ends
\* by serving cached rows has issued no upstream statement fetch.
C4_CacheServedWithoutFetch ==
    \A s \in Sessions :
        LET c == call[s]
        IN  c.pc = "done" /\ c.result.message = "already_exists"
            => ~Has(c.log, "fetch_bsis") /\ ~Has(c.log, "fetch_cf")


\* the (company code, business year) keys of the rows of a bag
KeysOf(B) == {<<r.corp_code, r.bsns_year>> : r \in BagToSet(B)}

\* the rows of a bag outside the key (corp_code, bsns_year)
OtherKeys(B, corp_code, bsns_year) ==
    BagSelect(B, LAMBDA r : ~(r.corp_code = corp_code /\ r.bsns_year = bsns_year))

\* C5 (replace semantics of the ratio write): after a successful _save_ratios
\* for a (company code, business year), also one that follows an earlier one
\* with another payload, exactly one RATIO row exists for the key and its
\* ratio fields are the payload of the last call; the rows of the other keys
\* are untouched.  Requests are served one after the other.
C5_RatioWriteReplaces ==
    /\ \A k \in KeysOf(fin_data) : BagCardinality(RatioRows(fin_data, k[1], k[2])) <= 1
    /\ \A s \in Sessions :
          LET c == call[s]
          IN  c.pc \in {"read_back", "done"} /\ Has(c.log, "commit") =>
                /\ RatioRows(fin_data, c.company_info.corp_code, c.bsns_year)
                     = SetToBag({RatioData(c.company_info.corp_code,
                                           c.company_info.corp_name,
                                           c.bsns_year, c.ratios)})
                /\ OtherKeys(fin_data, c.company_info.corp_code, c.bsns_year)
                     = OtherKeys(c.store0, c.company_info.corp_code, c.bsns_year)

C5_Witness ==
    \E s \in Sessions :
        LET c == call[s]
            before == RatioRows(c.store0, c.company_info.corp_code, c.bsns_year)
            after == RatioRows(fin_data, c.company_info.corp_code, c.bsns_year)
        IN  /\ c.pc = "done" /\ Has(c.log, "commit")
            /\ BagCardinality(before) = 1
            /\ BagCardinality(after) = 1
            /\ before # after
            /\ OtherKeys(c.store0, c.company_info.corp_code, c.bsns_year) # EmptyBag

\* C6 (RatioRecord uniqueness under racing requests), as claimed: in every
\* reachable state, overlapping invocations included, at most one RATIO row
\* exists for a (company code, business year).
C6_OneRatioRowPerKey ==
    \A k \in KeysOf(fin_data) : BagCardinality(RatioRows(fin_data, k[1], k[2])) <= 1

\* C7 (failure atomicity of the write path), as claimed: when a delete or an
\* insert of the invocation has failed, the invocation ends with its
\* transaction rolled back, the persisted store as it was before, and an
\* error-status result.
C7_FailedWriteRolledBack ==
    \A s \in Sessions :
        LET c == call[s]
        IN  c.pc = "done" /\ c.write_failed =>
              /\ tx[s] = NoTx
              /\ fin_data = c.store0
              /\ c.result.status = "error"

\* C8 (uniform failure shape): every failure inside
\* fetch_and_save_financial_data ends the invocation at once with a returned
\* result of status error that carries the message of the failure; no
\* exception leaves the operation.
C8_UniformFailureShape ==
    \A s \in Sessions :
        LET c == call[s]
        IN  /\ c.propagated = <<>>
            /\ c.raised # <<>> =>
                  /\ c.pc = "done"
                  /\ c.result = [status |-> "error", message |-> c.raised.msg]
            /\ c.pc = "done" => c.result # <<>> /\ c.result.status \in {"success", "error"}
            /\ c.pc = "done" /\ c.write_failed => c.raised # <<>>

C8_Witness ==
    \E s1 \in Sessions :
        LET c == call[s1]
        IN  /\ c.pc = "done"
            /\ c.raised = Error("Exception", "db_error")
            /\ Has(c.log, "rollback")
            /\ c.result.status = "error"

\* C9 (input error is a client-class failure), as claimed: when the company
\* name matches neither persisted rows nor an upstream company, the caller of
\* FinController.get_financial receives HTTP 400 with the message, never a
\* success-status response.
C9_UnknownCompanyIs400 ==
    \A s \in Sessions :
        LET c == call[s]
        IN  /\ c.pc = "done" /\ c.svc = "FinService"
            /\ c.raised = Error("ValueError", "company_not_found")
            => c.response.http = 400

\* C10 (upstream transport error is a failure), as claimed: when an upstream
\* call of the invocation answered with a non-success status, the invocation
\* ends with status error, never with status success.
C10_UpstreamErrorFails ==
    \A s \in Sessions :
        LET c == call[s]
        IN  c.pc = "done" /\ c.upstream_failed => c.result.status = "error"

\* the invocation tried a delete or an insert (a refused one included)
AttemptedWrite(c) == IssuedWrite(c) \/ c.write_failed

\* C11 (no writes before the fetch completes), as claimed: an invocation
\* issues a delete or an insert only after company resolution and both
\* upstream statement calls have finished successfully; an invocation that
\* fails in company resolution or in the fetch leaves the persisted store
\* exactly as it was.
C11_NoWriteBeforeFetchSucceeded ==
    \A s \in Sessions :
        LET c == call[s]
        IN  /\ AttemptedWrite(c) =>
                 /\ c.company_info # <<>>
                 /\ Has(c.log, "fetch_bsis") /\ Has(c.log, "fetch_cf")
                 /\ ~c.upstream_failed
            /\ c.pc = "done" /\ c.raised # <<>> /\ ~Has(c.log, "dedup") =>
                 /\ ~AttemptedWrite(c)
                 /\ tx[s] = NoTx
                 /\ fin_data = c.store0

(***************************************************************************)
(* The deduplicator on its own: every batch of up to MaxBatch normalized   *)
(* rows is handed to _deduplicate_statements, and its output to it again.  *)
(***************************************************************************)
\* the longest batch handed to the deduplicator
MaxBatch == 3

\* display orders as the upstream source writes them; as text "10" < "9"
DedupOrds == {<<"2">>, <<"9">>, <<"1", "0">>}

\* normalized rows of three keys: one account name under two statement
\* names, and a second account; the amount tells rows of one key apart
DedupRows ==
    {WithLabels(RawItem(Y2023, k[1], k[2], k[3], amt, <<>>, None, o)) :
        k \in {<<"BS", "balance_sheet", "total_equity">>,
               <<"IS", "income_statement", "total_equity">>,
               <<"IS", "income_statement", "revenue">>},
        amt \in {<<"1">>, <<"2">>},
        o \in DedupOrds}

DedupBatches == UNION {[1..n -> DedupRows] : n \in 0..MaxBatch}

InitDedup ==
    /\ fin_data = EmptyBag
    /\ tx = [s \in Sessions |-> NoTx]
    /\ ncalls = 0
    /\ \E batch \in DedupBatches :
          call = [s \in Sessions |->
                    IF s = "s1"
                    THEN [Idle EXCEPT !.pc = "dedup", !.svc = "FinService",
                                      !.fetched = batch, !.statements = batch]
                    ELSE Idle]

\* statements = self._deduplicate_statements(statements)
Deduplicate(s) ==
    /\ call[s].pc = "dedup"
    /\ call' = [call EXCEPT ![s] =
           Logged([call[s] EXCEPT !.statements = DeduplicateStatements(@),
                                  !.pc = "deduped"], <<"dedup">>)]
    /\ UNCHANGED <<fin_data, tx, ncalls>>

\* _deduplicate_statements applied to its own output
DeduplicateAgain(s) ==
    /\ call[s].pc = "deduped"
    /\ call' = [call EXCEPT ![s] =
           Logged([call[s] EXCEPT !.result = DeduplicateStatements(call[s].statements),
                                  !.pc = "deduped_twice"], <<"dedup">>)]
    /\ UNCHANGED <<fin_data, tx, ncalls>>

NextDedup == \E s \in Sessions : Deduplicate(s) \/ DeduplicateAgain(s)

SpecDedup == InitDedup /\ [][NextDedup]_vars

\* the (account name, statement name) key of a row, and the keys of a batch
KeyOfRow(r) == <<r.account_nm, r.sj_nm>>

KeysIn(batch) == {KeyOfRow(batch[i]) : i \in 1..Len(batch)}

Deduped(c) == c.pc \in {"deduped", "deduped_twice"}

\* C12 (dedup uniqueness): the output of _deduplicate_statements holds rows
\* of the input only, exactly one row for each (account name, statement name)
\* key that occurs in the input, and no row of another key.
C12_DedupUniqueness ==
    \A s \in Sessions :
        LET c == call[s]
            input == c.fetched
            out == c.statements
        IN  Deduped(c) =>
              /\ \A i \in 1..Len(out) : \E j \in 1..Len(input) : input[j] = out[i]
              /\ KeysIn(out) = KeysIn(input)
              /\ \A i, j \in 1..Len(out) : KeyOfRow(out[i]) = KeyOfRow(out[j]) => i = j

C12_Witness ==
    \E s \in Sessions :
        LET c == call[s]
        IN  /\ c.pc = "deduped"
            /\ Len(c.fetched) = 3 /\ Len(c.statements) = 2
            /\ \E i, j \in 1..3 :
                  /\ i # j
                  /\ c.fetched[i].account_nm = c.fetched[j].account_nm
                  /\ c.fetched[i].sj_nm # c.fetched[j].sj_nm

\* the position of the row that must survive for key k: the earliest among
\* the rows of k whose display order, read as an integer, is the least
Survivor(input, k) ==
    LET mine == {i \in 1..Len(input) : KeyOfRow(input[i]) = k}
        least == {i \in mine : \A j \in mine :
                      NumeralValue(input[i].ord) <= NumeralValue(input[j].ord)}
    IN  CHOOSE i \in least : \A j \in least : i <= j

\* C13 (dedup minimality with stable tie-break): for every key, the
\* surviving row is the earliest row in input order among the rows of the
\* key whose display order, compared as an integer, is the minimum.
C13_DedupMinimalStable ==
    \A s \in Sessions :
        LET c == call[s]
            input == c.fetched
            out == c.statements
        IN  Deduped(c) =>
              \A k \in KeysIn(input) :
                 \A i \in 1..Len(out) :
                    KeyOfRow(out[i]) = k => out[i] = input[Survivor(input, k)]

\* a tie on the least display order between different rows, after a row of
\* a display order that is greater as an integer and smaller as text
C13_Witness ==
    \E s \in Sessions :
        LET c == call[s]
        IN  /\ c.pc = "deduped"
            /\ Len(c.fetched) = 3 /\ Len(c.statements) = 1
            /\ c.fetched[1].ord = <<"1", "0">>
            /\ c.fetched[2].ord = <<"9">> /\ c.fetched[3].ord = <<"9">>
            /\ c.fetched[2] # c.fetched[3]
            /\ c.statements[1] = c.fetched[2]

\* C14 (dedup idempotence): _deduplicate_statements applied to its own
\* output returns exactly the rows of that output.
C14_DedupIdempotent ==
    \A s \in Sessions :
        LET c == call[s]
        IN  c.pc = "deduped_twice" => SeqToBag(c.result) = SeqToBag(c.statements)

C14_Witness ==
    \E s \in Sessions :
        LET c == call[s]
        IN  /\ c.pc = "deduped_twice"
            /\ Len(c.fetched) = 3 /\ Len(c.statements) = 2
            /\ c.result = c.statements

(***************************************************************************)
(* The ratio engine on its own: the statement rows persisted for one       *)
(* (company code, business year) are drawn from RatioPool; session s1 runs *)
(* calculate_and_save_ratios on them, session s2                           *)
(* calculate_financial_ratios.                                             *)
(***************************************************************************)
\* the most statement rows persisted for the key
MaxRows == 3

\* upstream entries of the key: <<division, statement name, account name,
\* current, prior, prior-prior amount>>
RatioEntries ==
    { <<"BS", "balance_sheet", "total_assets", <<"1", ",", "0", "0", "0">>, <<>>, None>>,
      <<"BS", "balance_sheet", "total_assets", <<"0">>, <<>>, None>>,
      <<"BS", "balance_sheet", "total_liabilities", <<"4", "0", "0">>, <<>>, None>>,
      <<"BS", "balance_sheet", "total_liabilities", <<"0">>, <<>>, None>>,
      <<"BS", "balance_sheet", "total_equity", <<"6", "0", "0">>, <<>>, None>>,
      <<"BS", "balance_sheet", "total_equity", <<"0">>, <<>>, None>>,
      <<"BS", "balance_sheet", "total_equity", <<"-", "6", "0", "0">>, <<>>, None>>,
      <<"BS", "balance_sheet", "current_assets", <<"3", "0", "0">>, <<>>, None>>,
      <<"BS", "balance_sheet", "current_liabilities", <<"1", "5", "0">>, <<>>, None>>,
      <<"BS", "balance_sheet", "current_liabilities", <<"0">>, <<>>, None>>,
      <<"BS", "balance_sheet", "borrowings", <<"1", "0", "0">>, <<>>, None>>,
      <<"IS", "income_statement", "revenue",
        <<"2", ",", "0", "0", "0">>, <<"1", ",", "0", "0", "0">>, <<"5", "0", "0">>>>,
      <<"IS", "income_statement", "revenue", <<"5", "0">>, <<"-", "1", "0", "0">>, <<>>>>,
      <<"IS", "income_statement", "revenue", <<"0">>, <<"0">>, <<>>>>,
      <<"IS", "income_statement", "operating_profit",
        <<"3", "0", "0">>, <<"-", "1", "0", "0">>, <<"5", "0">>>>,
      <<"IS", "income_statement", "operating_profit", <<"3", "0", "0">>, <<"2", "0", "0">>, <<>>>>,
      <<"IS", "income_statement", "net_income", <<"2", "0", "0">>, <<"1", "0", "0">>, <<"5", "0">>>>,
      <<"IS", "income_statement", "net_income", <<"-", "2", "0", "0">>, <<>>, <<>>>>,
      <<"IS", "income_statement", "interest_expense", <<"3", "0">>, <<>>, <<>>>>,
      <<"IS", "income_statement", "interest_expense", <<"0">>, <<>>, <<>>>>,
      <<"CF", "cash_flow_statement", "operating_cash_flow", <<"1", "2", "0">>, <<>>, <<>>>> }

\* the company of the key
RatioCompany == CHOOSE e \in Registry : e.corp_name = "A"

\* the rows the pipeline persists for these entries
RatioPool ==
    {PrepareStatementData(
         WithLabels(RawItem(Y2023, e[1], e[2], e[3], e[4], e[5], e[6], <<"1">>)),
         RatioCompany) : e \in RatioEntries}

RECURSIVE SetsUpTo(_, _)
SetsUpTo(P, k) ==
    IF k = 0 THEN {{}}
    ELSE LET smaller == SetsUpTo(P, k - 1)
         IN  smaller \cup {S \cup {x} : S \in smaller, x \in P}

\* up to MaxRows rows, an account name once per division
StoredRowSets ==
    {S \in SetsUpTo(RatioPool, MaxRows) :
        \A p, q \in S : p.sj_div = q.sj_div /\ p.account_nm = q.account_nm => p = q}

InitRatio ==
    /\ tx = [s \in Sessions |-> NoTx]
    /\ ncalls = 0
    /\ \E rows \in StoredRowSets :
          /\ fin_data = SetToBag(rows)
          /\ call = [s \in Sessions |->
                [Idle EXCEPT !.pc = IF s = "s1" THEN "ratio_query" ELSE "financial_ratios",
                             !.svc = "RatioService",
                             !.company_name = RatioCompany.corp_name,
                             !.company_info = RatioCompany,
                             !.bsns_year = Y2023,
                             !.store0 = SetToBag(rows)]]

\* repository.get_financial_statements(corp_code, bsns_year): the persisted
\* rows of the company and business year
GetFinancialStatements(view, corp_code, bsns_year) ==
    {r \in BagToSet(view) : r.corp_code = corp_code /\ r.bsns_year = bsns_year}

\* RatioService.calculate_financial_ratios(corp_code, bsns_year)
FinancialRatios(s) ==
    /\ call[s].pc = "financial_ratios"
    /\ LET c == call[s]
           statements == GetFinancialStatements(View(s), c.company_info.corp_code,
                                                c.bsns_year)
       IN  call' = [call EXCEPT ![s] =
              Logged([c EXCEPT !.ratios = CalculateFinancialRatios(
                                             c.company_info.corp_code, c.bsns_year,
                                             statements),
                               !.pc = "financial_ratios_done"],
                     <<"financial_ratios">>)]
    /\ UNCHANGED <<fin_data, tx, ncalls>>

NextRatio ==
    \E s \in Sessions :
        \/ RatioQuery(s) \/ RatioDelete(s) \/ RatioInsert(s) \/ Commit(s)
        \/ FinancialRatios(s)

SpecRatio == InitRatio /\ [][NextRatio]_vars

\* the table of ratio definitions: numerator and denominator as <<division,
\* account name>>, both of the current period, and the scale
RatioTable ==
    [debt_ratio |-> [num |-> <<"BS", "total_liabilities">>,
                     den |-> <<"BS", "total_equity">>, scale |-> 100],
     current_ratio |-> [num |-> <<"BS", "current_assets">>,
                        den |-> <<"BS", "current_liabilities">>, scale |-> 100],
     operating_profit_ratio |-> [num |-> <<"IS", "operating_profit">>,
                                 den |-> <<"IS", "revenue">>, scale |-> 100],
     net_profit_ratio |-> [num |-> <<"IS", "net_income">>,
                           den |-> <<"IS", "revenue">>, scale |-> 100],
     roe |-> [num |-> <<"IS", "net_income">>,
              den |-> <<"BS", "total_equity">>, scale |-> 100],
     roa |-> [num |-> <<"IS", "net_income">>,
              den |-> <<"BS", "total_assets">>, scale |-> 100],
     interest_coverage_ratio |-> [num |-> <<"IS", "operating_profit">>,
                                  den |-> <<"IS", "interest_expense">>, scale |-> 1],
     debt_dependency |-> [num |-> <<"BS", "borrowings">>,
                          den |-> <<"BS", "total_liabilities">>, scale |-> 100],
     cash_flow_debt_ratio |-> [num |-> <<"CF", "operating_cash_flow">>,
                               den |-> <<"BS", "total_liabilities">>, scale |-> 100]]

\* the account of each growth ratio
GrowthTable ==
    [sales_growth |-> "revenue", operating_profit_growth |-> "operating_profit",
     eps_growth |-> "net_income"]

GrowthNames == DOMAIN GrowthTable

Present(rows, a) == \E r \in rows : r.sj_div = a[1] /\ r.account_nm = a[2]

RowOf(rows, a) == CHOOSE r \in rows : r.sj_div = a[1] /\ r.account_nm = a[2]

\* the statement rows of the key the computation of c works on
KeyRows(c) ==
    {r \in BagToSet(c.store0) : /\ r.corp_code = c.company_info.corp_code
                                /\ r.bsns_year = c.bsns_year
                                /\ r.sj_div # "RATIO"}

\* a required account row of ratio r is absent, or its denominator is 0
Undefined(rows, r) ==
    IF r \in GrowthNames
    THEN \/ ~Present(rows, <<"IS", GrowthTable[r]>>)
         \/ RowOf(rows, <<"IS", GrowthTable[r]>>).frmtrm_amount = 0
    ELSE \/ ~Present(rows, RatioTable[r].num)
         \/ ~Present(rows, RatioTable[r].den)
         \/ RowOf(rows, RatioTable[r].den).thstrm_amount = 0

\* the value of the ratio r by the table, where it is defined
ByTable(rows, r) ==
    IF r \in GrowthNames
    THEN LET row == RowOf(rows, <<"IS", GrowthTable[r]>>)
         IN  Rat((row.thstrm_amount - row.frmtrm_amount) * 100, Abs(row.frmtrm_amount))
    ELSE Rat(RowOf(rows, RatioTable[r].num).thstrm_amount * RatioTable[r].scale,
             RowOf(rows, RatioTable[r].den).thstrm_amount)

\* the invocation of calculate_and_save_ratios has committed its RatioRecord
SavedRatios(c) == c.pc = "read_back" /\ Has(c.log, "commit")

\* the RatioRecords of the key of c in the persisted store
Persisted(c) == BagToSet(RatioRows(fin_data, c.company_info.corp_code, c.bsns_year))

Computed(c) ==
    \/ Has(c.log, "ratio_calc")
    \/ c.pc = "financial_ratios_done" /\ c.ratios # <<>>

Got(c, r) == IF r \in DOMAIN c.ratios THEN c.ratios[r] ELSE Zero

\* C16 (growth-rate sign safety), as claimed: in every computation path, for
\* sales_growth, operating_profit_growth and eps_growth with the account
\* present, the ratio is (current - previous) / abs(previous) * 100 for every
\* previous # 0, negative ones included, and 0 when previous = 0.
C16_GrowthSignSafe ==
    \A s \in Sessions :
        LET c == call[s]
            rows == KeyRows(c)
        IN  Computed(c) =>
              \A g \in GrowthNames :
                 Present(rows, <<"IS", GrowthTable[g]>>) =>
                    Got(c, g) = IF Undefined(rows, g) THEN Zero ELSE ByTable(rows, g)

FormulaNames ==
    {"debt_ratio", "current_ratio", "operating_profit_ratio", "net_profit_ratio",
     "roe", "roa", "interest_coverage_ratio"}

\* C17 (ratio formulas), as claimed: in every computation path, for each of
\* debt_ratio, current_ratio, operating_profit_ratio, net_profit_ratio, roe,
\* roa and interest_coverage_ratio, when both required account rows are
\* present and the denominator is not 0 (positive or negative), the computed
\* ratio is the table formula on the current-period amounts.
C17_TableFormulas ==
    \A s \in Sessions :
        LET c == call[s]
            rows == KeyRows(c)
        IN  Computed(c) =>
              \A r \in FormulaNames :
                 ~Undefined(rows, r) => Got(c, r) = ByTable(rows, r)

\* C18 (cash_flow_debt_ratio), as claimed: when the persisted rows of the key
\* hold an operating-cash-flow row of division CF and a total-liabilities row
\* of nonzero amount, calculate_and_save_ratios persists
\* cash_flow_debt_ratio = operating cash flow / total liabilities * 100.
C18_CashFlowDebtRatio ==
    \A s \in Sessions :
        LET c == call[s]
            rows == KeyRows(c)
        IN  SavedRatios(c) /\ ~Undefined(rows, "cash_flow_debt_ratio") =>
              /\ Persisted(c) # {}
              /\ \A p \in Persisted(c) :
                    p.ratios["cash_flow_debt_ratio"] = ByTable(rows, "cash_flow_debt_ratio")

\* the BS/IS entries of the end-to-end scenario: <<division, account name,
\* current-period amount as disclosed>>
ScenarioEntries ==
    { <<"BS", "total_assets", <<"1", ",", "0", "0", "0">>>>,
      <<"BS", "total_liabilities", <<"4", "0", "0">>>>,
      <<"BS", "total_equity", <<"6", "0", "0">>>>,
      <<"IS", "revenue", <<"2", ",", "0", "0", "0">>>>,
      <<"IS", "operating_profit", <<"3", "0", "0">>>>,
      <<"IS", "net_income", <<"2", "0", "0">>>> }

\* the BS/IS rows of the batch the invocation fetched are those of the scenario
FetchedScenario(c) ==
    /\ c.fetched # <<>>
    /\ {<<c.fetched[i].sj_div, c.fetched[i].account_nm, c.fetched[i].thstrm_amount>> :
           i \in {j \in 1..Len(c.fetched) : c.fetched[j].sj_div \in {"BS", "IS"}}}
         = ScenarioEntries

\* C19 (end-to-end scenario): for one company and year 2023 with the BS rows
\* total assets "1,000", total liabilities "400", total equity "600" and the
\* IS rows revenue "2,000", operating profit "300", net income "200", the
\* pipeline persists one RatioRecord whose values rounded to two decimals are
\* debt_ratio 66.67, current_ratio 0, roe 33.33, roa 20.0,
\* operating_profit_ratio 15.0 and net_profit_ratio 10.0 (in hundredths).
C19_EndToEndScenario ==
    \A s \in Sessions :
        LET c == call[s]
            saved == RatioRows(fin_data, c.company_info.corp_code, Y2023)
        IN  /\ c.pc = "done" /\ c.raised = <<>> /\ c.bsns_year = Y2023
            /\ FetchedScenario(c)
            => /\ Has(c.log, "commit")
               /\ BagCardinality(saved) = 1
               /\ \A p \in BagToSet(saved) :
                     /\ Round2(p.ratios["debt_ratio"]) = 6667
                     /\ Round2(p.ratios["current_ratio"]) = 0
                     /\ Round2(p.ratios["roe"]) = 3333
                     /\ Round2(p.ratios["roa"]) = 2000
                     /\ Round2(p.ratios["operating_profit_ratio"]) = 1500
                     /\ Round2(p.ratios["net_profit_ratio"]) = 1000

C19_Witness ==
    \E s \in Sessions :
        LET c == call[s]
        IN  /\ c.pc = "done" /\ c.raised = <<>> /\ c.bsns_year = Y2023
            /\ c.svc = "FinService"
            /\ FetchedScenario(c)
            /\ c.result.message = "saved"
            /\ \E p \in BagToSet(RatioRows(fin_data, c.company_info.corp_code, Y2023)) :
                  /\ p.ratios["debt_ratio"] = <<200, 3>>
                  /\ p.ratios["roe"] = <<100, 3>>
                  /\ p.ratios["roa"] = <<20, 1>>

(***************************************************************************)
(* Amount parsing on its own: a fetched row with every amount text of up   *)
(* to MaxAmountLen characters is handed to _prepare_statement_data.        *)
(***************************************************************************)
\* the longest amount text
MaxAmountLen == 3

\* characters of an amount text: digits, the grouping separator, a sign and
\* a character no number has
AmountChars == {"0", "1", ",", "-", "x"}

\* None, the empty text, and every text of up to MaxAmountLen characters
AmountTexts == {None} \cup UNION {[1..n -> AmountChars] : n \in 0..MaxAmountLen}

\* amounts of the prior period: absent, empty, not a number, grouped
PriorTexts == {None, <<>>, <<"1", "x">>, <<"1", ",", "0">>}

InitAmount ==
    /\ fin_data = EmptyBag
    /\ tx = [s \in Sessions |-> NoTx]
    /\ ncalls = 0
    /\ \E th \in AmountTexts : \E fr \in PriorTexts :
          call = [s \in Sessions |->
                    IF s = "s1"
                    THEN [Idle EXCEPT
                            !.pc = "prepare", !.svc = "FinService",
                            !.company_name = RatioCompany.corp_name,
                            !.company_info = RatioCompany,
                            !.statements =
                               <<WithLabels(RawItem(Y2023, "BS", "balance_sheet",
                                                    "total_assets", th, fr, None, <<"1">>))>>]
                    ELSE Idle]

\* statement_data = [self._prepare_statement_data(stmt, company_info) ...]
PrepareStatements(s) ==
    /\ call[s].pc = "prepare"
    /\ LET c == call[s]
       IN  call' = [call EXCEPT ![s] =
              Logged([c EXCEPT !.result =
                                  [i \in 1..Len(c.statements) |->
                                      PrepareStatementData(c.statements[i], c.company_info)],
                               !.pc = "prepared"],
                     <<"prepare">>)]
    /\ UNCHANGED <<fin_data, tx, ncalls>>

NextAmount == \E s \in Sessions : PrepareStatements(s)

SpecAmount == InitAmount /\ [][NextAmount]_vars

\* the number an amount text stands for: 0 for null, empty and non-numeric
\* text, otherwise the value of the text without its separators
AmountOf(text) ==
    IF text = None \/ text = <<>> THEN 0
    ELSE LET digits == SelectSeq(text, LAMBDA ch : ch # ",")
             signed == digits # <<>> /\ digits[1] = "-"
             body == IF signed THEN Tail(digits) ELSE digits
         IN  IF body # <<>> /\ \A i \in 1..Len(body) : body[i] \in Digits
             THEN (IF signed THEN 0 - 1 ELSE 1) * DigitsValue(body, 0)
             ELSE 0

MalformedYearFetched(c) ==
    \E k \in 1..Len(c.answers) :
        /\ c.answers[k].http = 200 /\ c.answers[k].status = "000"
        /\ \E i \in 1..Len(c.answers[k].list) :
              LET it == c.answers[k].list[i]
              IN  /\ k = 1 => it.sj_div \in {"BS", "IS"}
                  /\ \/ it.bsns_year = <<>>
                     \/ \E j \in 1..Len(it.bsns_year) : it.bsns_year[j] \notin Digits

\* C21 (a malformed business year propagates): when a fetched entry that is
\* normalized (BS, IS or cash flow) has a business-year text that is not
\* integer-parseable, the parse error propagates, the invocation ends with
\* status error, and no delete or insert has been issued.
C21_MalformedYearPropagates ==
    \A s \in Sessions :
        LET c == call[s]
        IN  MalformedYearFetched(c) =>
              /\ c.pc = "done"
              /\ c.raised # <<>> /\ c.raised.type = "ValueError"
              /\ c.result.status = "error"
              /\ ~AttemptedWrite(c)
              /\ tx[s] = NoTx
              /\ fin_data = c.store0

\* a good BS/IS answer followed by a cash-flow answer with a malformed year,
\* for a company that has rows persisted
C21_Witness ==
    \E s \in Sessions :
        LET c == call[s]
        IN  /\ c.pc = "done"
            /\ Len(c.answers) = 2
            /\ ~MalformedYearFetched([c EXCEPT !.answers = <<c.answers[1]>>])
            /\ c.answers[1].list # <<>>
            /\ MalformedYearFetched(c)
            /\ c.store0 # EmptyBag
            /\ c.result.status = "error"

\* the steps of a recompute, in the order of the source; the commit closes
\* the ratio write
RecomputeSteps ==
    <<"dedup", "stmt_delete", "stmt_insert", "ratio_query", "ratio_calc",
      "ratio_delete", "ratio_insert", "commit", "read">>

\* the steps when no BS or IS row is persisted for the key: the ratio query
\* finds nothing and calculate_and_save_ratios returns at once
StatementOnlySteps ==
    <<"dedup", "stmt_delete", "stmt_insert", "ratio_query", "read">>

IsPrefix(p, q) == Len(p) <= Len(q) /\ \A i \in 1..Len(p) : p[i] = q[i]

\* the steps of the invocation from the deduplication on (the rollback of a
\* failed ratio write is not a step of the list)
StepsTaken(c) ==
    LET from == CHOOSE i \in 1..Len(c.log) : c.log[i] = "dedup"
    IN  SelectSeq(SubSeq(c.log, from, Len(c.log)), LAMBDA e : e # "rollback")

\* the invocation is on the write path with a non-empty batch
RecomputeOfBatch(c) == Has(c.log, "dedup") /\ c.statements # <<>>

HasBsIsRow(c) == \E i \in 1..Len(c.statements) : c.statements[i].sj_div \in {"BS", "IS"}

C23_RatioPathsAgree ==
    \A s, t \in Sessions :
        LET c == call[s]
            d == call[t]
        IN  /\ Has(c.log, "ratio_calc")
            /\ d.pc = "financial_ratios_done" /\ d.ratios # <<>>
            /\ KeyRows(c) = KeyRows(d)
            /\ \A r \in KeyRows(c) : r.sj_div \in {"BS", "IS"}
            => \A r \in RatioNames :
                  d.ratios[r] = RatioData(c.company_info.corp_code,
                                          c.company_info.corp_name,
                                          c.bsns_year, c.ratios).ratios[r]

\* no invocation is in flight
Quiescent == \A s \in Sessions : call[s].pc \in {"idle", "done"}

\* the RatioRecords the ratio engine yields for the BS/IS rows of a key
EngineOn(rows, corp_code, corp_name, bsns_year) ==
    {RatioData(corp_code, corp_name, bsns_year, CalculateRatios(bs_data, is_data)) :
        bs_data \in NameIndexed(rows, "BS"), is_data \in NameIndexed(rows, "IS")}

\* the persisted BS/IS rows of a key
BsIsOfKey(k) ==
    {r \in BagToSet(fin_data) : /\ r.corp_code = k[1] /\ r.bsns_year = k[2]
                                /\ r.sj_div \in {"BS", "IS"}}

=============================================================================
